---- MODULE Spec2Model ----
(***************************************************************************)
(* Model of the notes service in src/app.py: a FastAPI application whose   *)
(* handlers are coroutines around single calls on one MongoDB collection,  *)
(* db["notes"].  A handler runs atomically up to each `await` of a storage *)
(* call; between two awaits of one handler the handlers of other requests  *)
(* may run.                                                                *)
(***************************************************************************)
EXTENDS Integers, FiniteSets, Sequences, TLC

\* ------------------------------------------------------------------ bounds
\* ObjectIds are the integers 1..MaxOid; 0 is a string that is not an ObjectId.
MaxOid == 2

\* ------------------------------------------------------- program constants
\* to_list(1000): the length passed to the cursor by both list handlers.
ListCap == 1000

\* ----------------------------------------------------------- value domains
\* A BSON / pydantic value is <<v>>, and null / None is <<>>.
None == <<>>
Some(v) == <<v>>

Fields == {"created", "updated", "text", "author", "in_trash"}
DateFields == {"created", "updated"}

Oids == 1..MaxOid
\* what a client can put in the path parameter {id}: any string
PathIds == 0..MaxOid

\* the ids that the requests of the concurrent specification name: a string
\* that is no ObjectId, and one ObjectId
SameIds == {0, 1}

\* the requests of one client run one after the other; requests of
\* different clients interleave at the awaits
Clients == {"c1", "c2"}

\* datetime.utcnow() evaluated once, when the class body of NoteModel runs
StartupTime == 0

\* datetime.isoformat() as applied by jsonable_encoder
IsoFormat(t) ==
    CASE t = 0 -> "2021-09-19T00:00:00"
      [] t = 1 -> "2021-09-20T00:02:03"
      [] OTHER -> "2021-09-21T00:00:00"

\* jsonable_encoder on one field value: datetimes become ISO strings,
\* None stays None, str and bool are unchanged
JsonableEncoder(k, v) ==
    IF v = None THEN None
    ELSE IF k \in DateFields THEN Some(IsoFormat(v[1])) ELSE v

\* ObjectId.is_valid
IsValidOid(v) == v \in Oids

\* --------------------------------------------------------- request bodies
\* An UpdateNoteModel instance as note.dict() returns it: all five keys,
\* None for every field the request did not carry (or carried as null).
UBody(c, u, t, a, i) ==
    [created |-> c, updated |-> u, text |-> t, author |-> a, in_trash |-> i]

UpdateBodies ==
    { UBody(None, None, None, None, None),
      UBody(None, Some(1), Some("b"), None, None),
      UBody(None, None, None, None, Some(TRUE)),
      UBody(None, None, None, None, Some(FALSE)) }

\* the bodies sent to remove_note and move_note, which read in_trash only
FlagBodies ==
    { UBody(None, None, None, None, None),
      UBody(None, None, None, None, Some(TRUE)),
      UBody(None, None, None, None, Some(FALSE)) }

\* A NoteModel as pydantic builds it from the body of POST /, before the
\* default_factory of id runs: id is None when the body carries neither
\* "_id" nor "id"; created already holds its default, StartupTime; text,
\* author or in_trash is None when the body lacks it (a validation error).
CBody(id, c, u, t, a, i) ==
    [id |-> id, created |-> c, updated |-> u, text |-> t, author |-> a,
     in_trash |-> i]

CreateBodies ==
    { CBody(id, Some(StartupTime), None, Some("a"), Some("u"), Some(tr)) :
          id \in {None} \cup {Some(v) : v \in PathIds}, tr \in BOOLEAN }
    \cup { CBody(None, Some(StartupTime), None, None, Some("u"), Some(FALSE)),
           CBody(None, Some(StartupTime), None, Some("a"), Some("u"), None) }

\* ------------------------------------------------------------------ state
VARIABLES
    store,     \* db["notes"]: the documents, as a function from _id
    bulk,      \* number of further documents in db["notes"], all with
               \* in_trash false, that no request of the model names
    nextOid,   \* the ObjectId that ObjectId() generates next
    issued,    \* history: the _id of every document ever inserted
    req,       \* per client: the handler in progress and where it awaits
    call,      \* the request received in the step just taken, if any
    resp       \* the response sent by the step just taken, if any

vars == <<store, bulk, nextOid, issued, req, call, resp>>

Idle == [pc |-> "idle", id |-> 0, calls |-> 0, clean |-> TRUE]
NoResp == [op |-> "none", id |-> 0, status |-> 0, calls |-> 0, body |-> {},
           nbulk |-> 0]
NoBody == UBody(None, None, None, None, None)
NoCall == [op |-> "none", id |-> 0, body |-> NoBody]
Call(op, id, body) == [op |-> op, id |-> id, body |-> body]
Response(op, id, status, calls, body) ==
    [op |-> op, id |-> id, status |-> status, calls |-> calls, body |-> body,
     nbulk |-> 0]

\* ------------------------------------------------------ storage operations
\* find_one({"_id": id}): the document or None
FindOne(st, id) == IF id \in DOMAIN st THEN Some(st[id]) ELSE None

\* content of a response that carries the result of find_one
Content(found) == IF found = None THEN {} ELSE {found[1]}

\* a replacement of the document by the patch instead of a $set
SetFields_Replace(doc, patch) ==
    [k \in DOMAIN doc \cup DOMAIN patch |->
        IF k \in DOMAIN patch THEN patch[k]
        ELSE IF k = "id" THEN doc[k] ELSE None]

\* {"$set": patch} applied to one document
SetFields(doc, patch) ==
    [k \in DOMAIN doc \cup DOMAIN patch |->
        IF k \in DOMAIN patch THEN patch[k] ELSE doc[k]]

\* update_one({"_id": id}, {"$set": patch}): no upsert
UpdateOne(st, id, patch) ==
    IF id \in DOMAIN st
    THEN [st EXCEPT ![id] = SetFields(st[id], patch)]
    ELSE st

\* update_result.modified_count
ModifiedCount(st, id, patch) ==
    IF id \in DOMAIN st /\ SetFields(st[id], patch) # st[id] THEN 1 ELSE 0

\* insert_one(doc) on a collection that has no document with doc.id
InsertOne(st, doc) == (doc.id :> doc) @@ st

\* a soft delete: the document is flagged, not removed
DeleteOne_Soft(st, id) ==
    UpdateOne(st, id, [k \in {"in_trash"} |-> Some(TRUE)])

\* delete_one({"_id": id})
DeleteOne(st, id) == [i \in DOMAIN st \ {id} |-> st[i]]

\* delete_result.deleted_count
DeletedCount(st, id) == IF id \in DOMAIN st THEN 1 ELSE 0

\* a find without the filter
Find_NoFilter(st, flag) == DOMAIN st

\* find({"in_trash": flag}): the _ids of the matching documents of the model
Find(st, flag) == {i \in DOMAIN st : st[i].in_trash = Some(flag)}

Min(a, b) == IF a < b THEN a ELSE b

\* ------------------------------------------------------- handler helpers
\* note.dict() without the filter on None
Sparse_KeepNone(body) == [k \in Fields |-> JsonableEncoder(k, body[k])]

\* {k: v for k, v in note.dict().items() if v is not None}, then
\* jsonable_encoder
Sparse(body) ==
    [k \in {f \in Fields : body[f] # None} |-> JsonableEncoder(k, body[k])]

\* a guard on the presence of the key instead of its value
NotInTrash_KeyPresent(body) ==
    body.in_trash \in {None, Some(FALSE), Some(TRUE)}

\* `not note["in_trash"]`
NotInTrash(body) == body.in_trash = None \/ body.in_trash = Some(FALSE)

\* jsonable_encoder(note) of a valid NoteModel, by alias
NoteDocument(id, b) ==
    [id |-> id,
     created |-> JsonableEncoder("created", b.created),
     updated |-> JsonableEncoder("updated", b.updated),
     text |-> JsonableEncoder("text", b.text),
     author |-> JsonableEncoder("author", b.author),
     in_trash |-> JsonableEncoder("in_trash", b.in_trash)]

\* a NoteModel whose text, author and in_trash are Optional
ValidNote_AllOptional(b) == b.id # None => IsValidOid(b.id[1])

\* pydantic validation of the body of POST /
ValidNote(b) ==
    /\ b.id # None => IsValidOid(b.id[1])
    /\ b.text # None /\ b.author # None /\ b.in_trash # None

\* a write of client c changed document id: a remove_note that awaits its
\* re-read of id has been overtaken
Overtake(c, id, new) ==
    [d \in Clients |->
        IF d = c THEN new
        ELSE IF req[d].pc = "remove_find" /\ req[d].id = id
             THEN [req[d] EXCEPT !.clean = FALSE]
             ELSE req[d]]

Pending(pc, id, calls) == [pc |-> pc, id |-> id, calls |-> calls, clean |-> TRUE]

\* ------------------------------------------------------------------- Init
Init ==
    /\ store = << >>
    /\ bulk = 0
    /\ nextOid = 1
    /\ issued = {}
    /\ req = [c \in Clients |-> Idle]
    /\ call = NoCall
    /\ resp = NoResp

\* the collection already holds ListCap notes that are not in the trash
InitFull ==
    /\ store = << >>
    /\ bulk = ListCap
    /\ nextOid = 1
    /\ issued = {}
    /\ req = [c \in Clients |-> Idle]
    /\ call = NoCall
    /\ resp = NoResp

\* ---------------------------------------------------------------- actions
\* POST /  (create_note), up to the await of insert_one
CreateNote(c, b) ==
    /\ req[c].pc = "idle"
    /\ b.id = None => nextOid <= MaxOid
    /\ nextOid' = IF b.id = None THEN nextOid + 1 ELSE nextOid
    /\ bulk' = bulk
    /\ call' = Call("create", IF b.id = None THEN nextOid ELSE b.id[1], b)
    /\ LET id == IF b.id = None THEN nextOid ELSE b.id[1] IN
       IF ~ValidNote(b)
       THEN /\ resp' = Response("create", 0, 422, 0, {})
            /\ UNCHANGED <<store, issued, req>>
       ELSE IF id \in DOMAIN store
       THEN \* DuplicateKeyError, not caught
            /\ resp' = Response("create", id, 500, 1, {})
            /\ UNCHANGED <<store, issued, req>>
       ELSE /\ store' = InsertOne(store, NoteDocument(id, b))
            /\ issued' = issued \cup {id}
            /\ req' = Overtake(c, id, Pending("create_find", id, 1))
            /\ resp' = NoResp

\* create_note, find_one of the inserted id and the response
CreateNoteFind(c) ==
    /\ req[c].pc = "create_find"
    /\ call' = NoCall
    /\ resp' = Response("create", req[c].id, 201, req[c].calls + 1,
                         Content(FindOne(store, req[c].id)))
    /\ req' = [req EXCEPT ![c] = Idle]
    /\ UNCHANGED <<store, bulk, nextOid, issued>>

\* find({"in_trash": flag}).to_list(ListCap): the first ListCap matching
\* documents in the order of the storage layer, which is not specified, so
\* every choice of that many matching documents is a possible result.  A
\* result is the documents of the model in it and the number of the others.
ToList(st, blk, flag) ==
    LET match == Find(st, flag)
        others == IF flag THEN 0 ELSE blk
        n == Min(Cardinality(match) + others, ListCap)
    IN { [docs |-> {st[i] : i \in T}, nbulk |-> n - Cardinality(T)] :
            T \in {U \in SUBSET match : n - Cardinality(U) \in 0..others} }

\* the body shared by list_all_notes and list_deleted_notes
ListNotes(c, op, flag) ==
    /\ req[c].pc = "idle"
    /\ \E r \in ToList(store, bulk, flag) :
          resp' = [Response(op, 0, 200, 1, r.docs) EXCEPT !.nbulk = r.nbulk]
    /\ call' = Call(op, 0, NoBody)
    /\ UNCHANGED <<store, bulk, nextOid, issued, req>>

\* GET /  (list_all_notes)
ListAllNotes(c) == ListNotes(c, "list", FALSE)

\* GET /in_trash  (list_deleted_notes)
ListDeletedNotes(c) == ListNotes(c, "list_trash", TRUE)

\* GET /{id}  (show_note)
ShowNote(c, id) ==
    /\ req[c].pc = "idle"
    /\ call' = Call("show", id, NoBody)
    /\ LET note == FindOne(store, id) IN
       resp' = Response("show", id, IF note # None THEN 200 ELSE 404, 1,
                        Content(note))
    /\ UNCHANGED <<store, bulk, nextOid, issued, req>>

\* PUT /{id}  (update_note), up to its first await that suspends
UpdateNote(c, id, b) ==
    /\ req[c].pc = "idle"
    /\ call' = Call("update", id, b)
    /\ LET note == Sparse(b) IN
       IF Cardinality(DOMAIN note) >= 1
       THEN /\ store' = UpdateOne(store, id, note)
            /\ req' = IF store' # store
                       THEN Overtake(c, id,
                              Pending(IF ModifiedCount(store, id, note) = 1
                                      THEN "update_find_125"
                                      ELSE "update_find_128", id, 1))
                       ELSE [req EXCEPT ![c] =
                              Pending(IF ModifiedCount(store, id, note) = 1
                                      THEN "update_find_125"
                                      ELSE "update_find_128", id, 1)]
            /\ resp' = NoResp
       ELSE /\ store' = store
            /\ req' = req
            /\ LET existing == FindOne(store, id) IN
               resp' = Response("update", id,
                                IF existing # None THEN 200 ELSE 404, 1,
                                Content(existing))
    /\ UNCHANGED <<bulk, nextOid, issued>>

\* update_note, find_one at line 125 after modified_count == 1
UpdateNoteFind125(c) ==
    /\ req[c].pc = "update_find_125"
    /\ call' = NoCall
    /\ LET updated == FindOne(store, req[c].id) IN
       IF updated # None
       THEN /\ resp' = Response("update", req[c].id, 200, req[c].calls + 1,
                                 Content(updated))
            /\ req' = [req EXCEPT ![c] = Idle]
       ELSE /\ resp' = NoResp
            /\ req' = [req EXCEPT ![c] =
                         Pending("update_find_128", req[c].id, req[c].calls + 1)]
    /\ UNCHANGED <<store, bulk, nextOid, issued>>

\* update_note, find_one at line 128
UpdateNoteFind128(c) ==
    /\ req[c].pc = "update_find_128"
    /\ call' = NoCall
    /\ LET existing == FindOne(store, req[c].id) IN
       resp' = Response("update", req[c].id,
                        IF existing # None THEN 200 ELSE 404,
                        req[c].calls + 1, Content(existing))
    /\ req' = [req EXCEPT ![c] = Idle]
    /\ UNCHANGED <<store, bulk, nextOid, issued>>

\* the body shared by remove_note and move_note, up to the await of
\* update_one: flag is the value the handler writes
SetTrash(c, op, pc, id, b, flag) ==
    /\ req[c].pc = "idle"
    /\ call' = Call(op, id, b)
    /\ IF NotInTrash(b)
       THEN /\ store' = UpdateOne(store, id, [k \in {"in_trash"} |-> Some(flag)])
            /\ req' = IF store' # store
                       THEN Overtake(c, id, Pending(pc, id, 1))
                       ELSE [req EXCEPT ![c] = Pending(pc, id, 1)]
            /\ resp' = NoResp
       ELSE /\ resp' = Response(op, id, 404, 0, {})
            /\ UNCHANGED <<store, req>>
    /\ UNCHANGED <<bulk, nextOid, issued>>

\* the re-read of remove_note and move_note and the response
SetTrashFind(c, op, pc) ==
    /\ req[c].pc = pc
    /\ call' = NoCall
    /\ LET updated == FindOne(store, req[c].id) IN
       resp' = Response(op, req[c].id, IF updated # None THEN 200 ELSE 404,
                        req[c].calls + 1, Content(updated))
    /\ req' = [req EXCEPT ![c] = Idle]
    /\ UNCHANGED <<store, bulk, nextOid, issued>>

\* remove_note writing the flag of move_note
RemoveNote_WritesFalse(c, id, b) ==
    SetTrash(c, "to_trash", "remove_find", id, b, FALSE)

\* PUT /to_trash/{id}  (remove_note)
RemoveNote(c, id, b) == SetTrash(c, "to_trash", "remove_find", id, b, TRUE)
RemoveNoteFind(c) == SetTrashFind(c, "to_trash", "remove_find")

\* move_note writing the flag of remove_note
MoveNote_WritesTrue(c, id, b) ==
    SetTrash(c, "from_trash", "move_find", id, b, TRUE)

\* PUT /from_trash/{id}  (move_note)
MoveNote(c, id, b) == SetTrash(c, "from_trash", "move_find", id, b, FALSE)
MoveNoteFind(c) == SetTrashFind(c, "from_trash", "move_find")

\* DELETE /{id}  (delete_note)
DeleteNote(c, id) ==
    /\ req[c].pc = "idle"
    /\ call' = Call("delete", id, NoBody)
    /\ store' = DeleteOne(store, id)
    /\ req' = IF store' # store THEN Overtake(c, id, Idle) ELSE req
    /\ resp' = Response("delete", id,
                         IF DeletedCount(store, id) = 1 THEN 204 ELSE 404, 1, {})
    /\ UNCHANGED <<bulk, nextOid, issued>>

\* every step of the handlers of client c, whose requests name the ids in ids
Handler(c, ids) ==
    \/ \E b \in {x \in CreateBodies : x.id = None \/ x.id[1] \in ids} :
          CreateNote(c, b)
    \/ CreateNoteFind(c)
    \/ ListAllNotes(c)
    \/ ListDeletedNotes(c)
    \/ \E id \in ids : ShowNote(c, id)
    \/ \E id \in ids, b \in UpdateBodies : UpdateNote(c, id, b)
    \/ UpdateNoteFind125(c)
    \/ UpdateNoteFind128(c)
    \/ \E id \in ids, b \in FlagBodies : RemoveNote(c, id, b)
    \/ RemoveNoteFind(c)
    \/ \E id \in ids, b \in FlagBodies : MoveNote(c, id, b)
    \/ MoveNoteFind(c)
    \/ \E id \in ids : DeleteNote(c, id)

\* requests of all clients, interleaved at the awaits, all against the same
\* ObjectId (requests against different ids are independent)
Next == \E c \in Clients : Handler(c, SameIds)

\* one client: its requests run one after the other, against any id
NextSeq == Handler("c1", PathIds)

Spec == Init /\ [][Next]_vars
SpecSeq == Init /\ [][NextSeq]_vars
SpecFull == InitFull /\ [][NextSeq]_vars

TypeOK ==
    /\ DOMAIN store \subseteq Oids
    /\ nextOid \in 1..(MaxOid + 1)
    /\ issued \subseteq Oids

\* ------------------------------------------------------------------ claims
\* C1 as stated: in every reachable state, ListActive() returns only notes
\* whose stored in_trash is false, ListTrashed() only notes whose stored
\* in_trash is true, no id is in both results, and the union of the two
\* results is exactly the set of all stored notes.
C1_ListsPartitionStore ==
    \A ra \in ToList(store, bulk, FALSE), rt \in ToList(store, bulk, TRUE) :
        /\ \A d \in ra.docs : d.id \in DOMAIN store /\ store[d.id] = d
                              /\ d.in_trash = Some(FALSE)
        /\ \A d \in rt.docs : d.id \in DOMAIN store /\ store[d.id] = d
                              /\ d.in_trash = Some(TRUE)
        /\ {d.id : d \in ra.docs} \cap {d.id : d \in rt.docs} = {}
        /\ {d.id : d \in ra.docs} \cup {d.id : d \in rt.docs} = DOMAIN store
        /\ ra.nbulk + rt.nbulk = bulk

\* C1 amended: the results hold only stored notes of the right in_trash, are
\* disjoint, and each holds min(1000, number of matching notes) notes; their
\* union is the set of all stored notes when neither kind has more than 1000.
C1_ListsPartitionUpToCap ==
    LET active == {i \in DOMAIN store : store[i].in_trash = Some(FALSE)}
        trashed == {i \in DOMAIN store : store[i].in_trash = Some(TRUE)}
    IN \A ra \in ToList(store, bulk, FALSE), rt \in ToList(store, bulk, TRUE) :
        /\ \A d \in ra.docs : d.id \in active /\ store[d.id] = d
        /\ \A d \in rt.docs : d.id \in trashed /\ store[d.id] = d
        /\ ra.nbulk \in 0..bulk /\ rt.nbulk = 0
        /\ {d.id : d \in ra.docs} \cap {d.id : d \in rt.docs} = {}
        /\ Cardinality(ra.docs) + ra.nbulk
              = Min(Cardinality(active) + bulk, 1000)
        /\ Cardinality(rt.docs) = Min(Cardinality(trashed), 1000)
        /\ (Cardinality(active) + bulk <= 1000 /\ Cardinality(trashed) <= 1000)
              => /\ {d.id : d \in ra.docs} \cup {d.id : d \in rt.docs}
                       = DOMAIN store
                 /\ ra.nbulk = bulk

\* a response of GET / that leaves out stored active notes, while a note is
\* in the trash
C1_Witness ==
    /\ resp.op = "list" /\ resp.status = 200
    /\ resp.body # {}
    /\ Cardinality(resp.body) + resp.nbulk = 1000
    /\ Cardinality({i \in DOMAIN store : store[i].in_trash = Some(FALSE)})
          + bulk > 1000
    /\ \E i \in DOMAIN store : store[i].in_trash = Some(TRUE)

\* C2 as stated: the id of a note that a Create inserts is a well-formed
\* ObjectId and differs from the id of every note inserted earlier, the
\* hard-deleted ones included.
C2_CreatedIdIsFresh ==
    [][\A i \in DOMAIN store' \ DOMAIN store : i \in Oids /\ i \notin issued]_vars

\* C3: Update(id, F) with non-empty F on a stored note sets every field
\* that F names to the supplied value (as jsonable_encoder encodes it),
\* leaves every other field of the note, its id included, as it was, and
\* leaves every other note unchanged.
C3_UpdateFrame ==
    [][(/\ call'.op = "update"
        /\ call'.body # NoBody
        /\ call'.id \in DOMAIN store)
       => /\ DOMAIN store' = DOMAIN store
          /\ \A j \in DOMAIN store \ {call'.id} : store'[j] = store[j]
          /\ store'[call'.id].id = call'.id
          /\ \A k \in Fields :
                store'[call'.id][k] =
                   IF call'.body[k] = None THEN store[call'.id][k]
                   ELSE IF k \in DateFields
                        THEN Some(IsoFormat(call'.body[k][1]))
                        ELSE call'.body[k]]_vars

\* an Update of text and updated has acted on a note in the trash, whose
\* author and in_trash stay as they were, while another note is stored
C3_Witness ==
    /\ call.op = "update"
    /\ call.body = UBody(None, Some(1), Some("b"), None, None)
    /\ call.id \in DOMAIN store
    /\ store[call.id].text = Some("b")
    /\ store[call.id].updated = Some("2021-09-20T00:02:03")
    /\ store[call.id].author = Some("u")
    /\ store[call.id].in_trash = Some(TRUE)
    /\ \E c \in Clients : req[c].pc = "update_find_125" /\ req[c].id = call.id
    /\ \E j \in DOMAIN store : j # call.id

\* C4: Update(id, {}) issues no write: the store is the same after the
\* step, the handler makes one storage call (a read) and answers in the same
\* step with the stored note of id, or with NotFound when id is not stored.
C4_EmptyUpdateReadsOnly ==
    [][(call'.op = "update" /\ call'.body = NoBody)
       => /\ store' = store
          /\ req' = req
          /\ resp'.op = "update" /\ resp'.id = call'.id /\ resp'.calls = 1
          /\ IF call'.id \in DOMAIN store
             THEN resp'.status = 200 /\ resp'.body = {store[call'.id]}
             ELSE resp'.status = 404 /\ resp'.body = {}]_vars

\* Update(id, {}) has answered with a stored note that an earlier Update
\* changed
C4_Witness ==
    /\ call.op = "update" /\ call.body = NoBody
    /\ resp.op = "update" /\ resp.status = 200
    /\ \E d \in resp.body : d.text = Some("b") /\ d = store[call.id]

\* C5: MoveToTrash and RestoreFromTrash with a supplied flag of true answer
\* NotFound without a storage call and leave the store unchanged, whatever
\* is stored under id.
C5_FlagTrueIsNotFound ==
    [][(call'.op \in {"to_trash", "from_trash"}
          /\ call'.body.in_trash = Some(TRUE))
       => /\ store' = store
          /\ req' = req
          /\ resp'.op = call'.op /\ resp'.id = call'.id
          /\ resp'.status = 404 /\ resp'.calls = 0]_vars

\* RestoreFromTrash with flag true has answered NotFound for a note that is
\* stored and in the trash
C5_Witness ==
    /\ call.op = "from_trash" /\ call.body.in_trash = Some(TRUE)
    /\ resp.status = 404
    /\ call.id \in DOMAIN store
    /\ store[call.id].in_trash = Some(TRUE)

\* C6 as stated: in every interleaving with other requests against the same
\* id, the Note that MoveToTrash returns has in_trash = true.
C6_ReturnsTrashed ==
    resp.op = "to_trash" /\ resp.status = 200
       => \A d \in resp.body : d.in_trash = Some(TRUE)

\* C6 amended: MoveToTrash with a flag that is not true sets the stored
\* in_trash of note id to true if id is stored and creates no note; it
\* returns the note stored under id at its re-read, NotFound if there is
\* none; the returned note has in_trash = true if no other request changed
\* note id between the write and the re-read.
C6_ReturnsReRead ==
    [][/\ (call'.op = "to_trash" /\ call'.body.in_trash # Some(TRUE))
          => /\ DOMAIN store' = DOMAIN store
             /\ \A j \in DOMAIN store \ {call'.id} : store'[j] = store[j]
             /\ call'.id \in DOMAIN store
                   => store'[call'.id].in_trash = Some(TRUE)
             /\ \E c \in Clients :
                   /\ req[c].pc = "idle" /\ req'[c].pc = "remove_find"
                   /\ req'[c].id = call'.id
       /\ \A c \in Clients :
             (req[c].pc = "remove_find" /\ req'[c].pc # "remove_find")
             => /\ store' = store
                /\ resp'.op = "to_trash" /\ resp'.id = req[c].id
                /\ resp'.calls = 2
                /\ IF req[c].id \in DOMAIN store
                   THEN resp'.status = 200 /\ resp'.body = {store[req[c].id]}
                   ELSE resp'.status = 404 /\ resp'.body = {}
                /\ (req[c].clean /\ resp'.status = 200)
                      => \A d \in resp'.body : d.in_trash = Some(TRUE)]_vars

\* MoveToTrash has returned the note, in the trash, after its two calls
C6_Witness ==
    /\ resp.op = "to_trash" /\ resp.status = 200 /\ resp.calls = 2
    /\ \E d \in resp.body : d.in_trash = Some(TRUE) /\ d = store[resp.id]

\* C7: a Delete(id) that succeeds removes note id and no other; from then
\* on, until a Create inserts id again, id is not stored, GetById(id)
\* answers NotFound and no list holds id.  Delete(id) of an id that is not
\* stored answers NotFound and leaves the store unchanged.
C7_DeleteRemoves ==
    [][/\ call'.op = "delete"
          => /\ resp'.op = "delete" /\ resp'.id = call'.id
             /\ call'.id \notin DOMAIN store'
             /\ \A j \in DOMAIN store \ {call'.id} :
                   j \in DOMAIN store' /\ store'[j] = store[j]
             /\ IF call'.id \in DOMAIN store
                THEN resp'.status = 204
                ELSE resp'.status = 404 /\ store' = store
       /\ \A i \in DOMAIN store' \ DOMAIN store : call'.op = "create"
       /\ (call'.op = "show" /\ call'.id \notin DOMAIN store)
          => resp'.status = 404 /\ resp'.body = {}
       /\ call'.op \in {"list", "list_trash"}
          => \A d \in resp'.body : d.id \in DOMAIN store]_vars

\* GetById has answered NotFound for the id of a note that was created and
\* then deleted
C7_Witness ==
    /\ call.op = "show" /\ resp.status = 404
    /\ call.id \in issued /\ call.id \notin DOMAIN store

\* C8: every stored note has text, author and in_trash defined, in_trash
\* being true or false.
C8_RequiredFieldsDefined ==
    \A i \in DOMAIN store :
        /\ store[i].text # None
        /\ store[i].author # None
        /\ store[i].in_trash \in {Some(TRUE), Some(FALSE)}

\* a stored note that has been updated and moved to the trash
C8_Witness ==
    \E i \in DOMAIN store :
        /\ store[i].text = Some("b")
        /\ store[i].updated # None
        /\ store[i].in_trash = Some(TRUE)

\* C9 as stated: the stored in_trash of a note changes from false to true
\* only in a MoveToTrash step and from true to false only in a
\* RestoreFromTrash step.
C9_OnlyTrashHandlers ==
    [][\A i \in DOMAIN store \cap DOMAIN store' :
          /\ (store[i].in_trash = Some(FALSE) /\ store'[i].in_trash = Some(TRUE))
                => call'.op = "to_trash" /\ call'.id = i
          /\ (store[i].in_trash = Some(TRUE) /\ store'[i].in_trash = Some(FALSE))
                => call'.op = "from_trash" /\ call'.id = i]_vars

\* C9 amended: the stored in_trash of a note changes from false to true
\* only in a MoveToTrash step or in an Update step whose fields set in_trash
\* to true, and from true to false only in a RestoreFromTrash step or in an
\* Update step whose fields set in_trash to false; it is always true or
\* false.
C9_TrashHandlersOrUpdate ==
    [][\A i \in DOMAIN store \cap DOMAIN store' :
          /\ store'[i].in_trash \in {Some(TRUE), Some(FALSE)}
          /\ (store[i].in_trash = Some(FALSE) /\ store'[i].in_trash = Some(TRUE))
                => /\ call'.id = i
                   /\ \/ call'.op = "to_trash"
                      \/ call'.op = "update" /\ call'.body.in_trash = Some(TRUE)
          /\ (store[i].in_trash = Some(TRUE) /\ store'[i].in_trash = Some(FALSE))
                => /\ call'.id = i
                   /\ \/ call'.op = "from_trash"
                      \/ call'.op = "update" /\ call'.body.in_trash = Some(FALSE)]_vars

\* an Update that names in_trash has put a stored note into the trash
\* (modified_count was 1)
C9_Witness ==
    /\ call.op = "update" /\ call.body.in_trash = Some(TRUE)
    /\ call.id \in DOMAIN store
    /\ store[call.id].in_trash = Some(TRUE)
    /\ \E c \in Clients : req[c].pc = "update_find_125" /\ req[c].id = call.id

\* C10 as stated: no handler makes more than two storage calls before it
\* responds.
C10_AtMostTwoCalls ==
    /\ resp.calls <= 2
    /\ \A c \in Clients : req[c].calls <= 2

====
